---- MODULE Spec2Model ----
(***************************************************************************)
(* Model of the fantasy trade engine: the greedy lineup scorer             *)
(* (utils/scoring.py), the exhaustive trade search and its post-processing *)
(* (utils/services.py) and the front end's report (app.py).                *)
(*                                                                         *)
(* A projection table is a sequence of rows                                *)
(*   [user_id, player_id, position, week, pts_ppr]                         *)
(* in data-frame order.  A score is a fraction [num, den]: the code        *)
(* returns the float num / den, and den = 0 stands for the                 *)
(* ZeroDivisionError that the division raises.                             *)
(***************************************************************************)
EXTENDS Integers, Sequences, FiniteSets, TLC

VARIABLES
    player_projections,  \* the merged projection table (rows in data-frame order)
    team_composition,    \* TEAM_COMPOSITION["team_composition"]: <<[position, quantity], ...>>
    \* ---- one call of Projections.get_max_possible_score ----
    player_ids,          \* the argument: the set of player ids to score
    projections,         \* the local working list of rows
    weeks_left,          \* weeks of the for-loop of line 55 not yet iterated
    week,                \* the loop variable (0: none)
    slot,                \* index into team_composition of the position being filled
    filled,              \* iterations of `for _ in range(quantity)` done for this slot
    score,               \* the running sum
    picks,               \* history: the selections made, in order
    spc,                 \* position in the scorer: "idle", "call", "weeks", "slots", "returned", "raised"
    sresult,             \* the value returned (a fraction), once returned
    \* ---- one request: app.main -> get_recommended_trades -> _get_recommended_trades ----
    max_group_size,      \* the argument
    set_order,           \* user id -> the order in which that roster's Python set is iterated
    user_base_score,     \* local of _get_recommended_trades
    other_base_score,    \* local of _get_recommended_trades
    loop,                \* the iterations of the nested loops still to run (see LoopEvents)
    accepted_trades,     \* local of _get_recommended_trades (the list it returns)
    recommended_trades,  \* the data frame of get_recommended_trades, as a sequence of rows
    exception,           \* "none", or the exception that ended the request
    report,              \* what the front end shows: "none", "warning", "success"
    pc,                  \* position in the request: "idle", "call", "search", "frame", "returned", "done", "raised"
    recursive_depth,     \* the argument of the innermost call of _load_player_projections_one_week
    attempts,            \* how many times subprocess.run was called
    failed,              \* how many of those runs gave nothing json.loads could parse
    output,              \* what the last subprocess.run gave: its stdout, or OSError
    fresult,             \* the value the fetch returned
    fexception,          \* "none", or the exception that left the fetch
    fpc                  \* position in the fetch: "idle", "call", "try", "loads", "except", "returned", "raised"

svars == <<player_ids, projections, weeks_left, week, slot, filled, score, picks, spc, sresult>>
tvars == <<max_group_size, set_order, user_base_score, other_base_score, loop, accepted_trades, recommended_trades, exception, report, pc>>
fvars == <<recursive_depth, attempts, failed, output, fresult, fexception, fpc>>
vars == <<player_projections, team_composition, svars, tvars, fvars>>

----------------------------------------------------------------------------
(* Bounds of the model *)

\* largest projected points value of a generated table
MaxPts == 2
\* largest max_group_size a request is made with
MaxGroup == 2

(* pd.isna(pts_ppr): a missing points value.  Points are non-negative. *)
NaN == -1
\* a (player, week) pair without any row in the table
NoRow == NaN - 1

Weeks == {1, 2}
PlayerOrder == <<"A", "B", "C", "D">>
PositionOrder == <<"QB", "RB", "WR">>
UserOrder == <<"u", "v", "w">>
Users == {UserOrder[i] : i \in DOMAIN UserOrder}
\* the user the trades are searched for
user_id == "u"

ToSet(t) == {t[i] : i \in DOMAIN t}

\* slot configurations the model is run with (ordered slot name -> quantity)
Slot(p, q) == [position |-> p, quantity |-> q]
SlotConfigs ==
    { <<>>,
      <<Slot("flex", 1)>>,
      <<Slot("RB", 1), Slot("WR", 1), Slot("flex", 1)>>,
      <<Slot("WR", 1), Slot("RB", 1), Slot("superflex", 1), Slot("BN", 2)>>,
      <<Slot("QB", 1), Slot("RB", 1), Slot("WR", 2)>> }
SearchConfigs ==
    { <<>>,
      <<Slot("flex", 1)>>,
      <<Slot("RB", 1)>>,
      <<Slot("RB", 1), Slot("flex", 1)>> }

----------------------------------------------------------------------------
(* The projection table *)

Row(u, p, t, w, x) == [user_id |-> u, player_id |-> p, position |-> t, week |-> w, pts_ppr |-> x]

\* The merged table for ownership `owner`, tags `tags` and points `pts`: one row
\* per player, position tag and week, in player / position / week order.
Table(owner, tags, pts) ==
    LET np == Len(PlayerOrder)
        nt == Len(PositionOrder)
        nw == Cardinality(Weeks)
        all == [i \in 1..(np * nt * nw) |->
                  LET p == PlayerOrder[((i - 1) \div (nt * nw)) + 1]
                      t == PositionOrder[(((i - 1) \div nw) % nt) + 1]
                      w == ((i - 1) % nw) + 1
                  IN  Row(IF p \in DOMAIN owner THEN owner[p] ELSE "",
                          p, t, w,
                          IF p \in DOMAIN pts THEN pts[p][w] ELSE NoRow)]
    IN  SelectSeq(all, LAMBDA r: /\ r.player_id \in DOMAIN tags
                                 /\ r.position \in tags[r.player_id]
                                 /\ r.pts_ppr # NoRow)

----------------------------------------------------------------------------
(* Projections.get_max_possible_score *)

position_map(position) ==
    IF position = "flex" THEN {"RB", "WR", "TE"}
    ELSE IF position = "superflex" THEN {"RB", "WR", "TE", "QB"}
    ELSE {position}

WeeksOf(rows) == {rows[i].week : i \in DOMAIN rows}

FilterPlayers(rows, ids) == SelectSeq(rows, LAMBDA r: r.player_id \in ids)

possible_projections(rows, w, position) ==
    SelectSeq(rows, LAMBDA r: /\ r.week = w
                              /\ r.position \in position_map(position)
                              /\ r.pts_ppr # NaN)

\* max(possible_projections, key=pts_ppr): the first row holding the largest value
FirstEligible(poss) == poss[1]
selected_projection(poss) ==
    LET best == CHOOSE i \in DOMAIN poss :
                  /\ \A j \in DOMAIN poss : poss[j].pts_ppr <= poss[i].pts_ppr
                  /\ \A j \in 1..(i - 1) : poss[j].pts_ppr < poss[i].pts_ppr
    IN  poss[best]

\* the list comprehension of lines 73-77
RemoveOneTag(rows, sel, w) == SelectSeq(rows, LAMBDA r: r # sel)
RemoveSelected(rows, sel, w) ==
    SelectSeq(rows, LAMBDA r: r.player_id # sel.player_id \/ r.week # w)

\* One iteration of `for _ in range(quantity)` (lines 64-77) on the scorer's
\* locals st = [projections, score, picks].
FillSlot(st, w, position) ==
    LET poss == possible_projections(st.projections, w, position)
    IN  IF Len(poss) > 0
        THEN LET sel == selected_projection(poss)
             IN  [projections |-> RemoveSelected(st.projections, sel, w),
                  score |-> st.score + sel.pts_ppr,
                  picks |-> Append(st.picks, [week |-> w, position |-> position,
                                              player_id |-> sel.player_id,
                                              pts_ppr |-> sel.pts_ppr])]
        ELSE st

RECURSIVE FillQuantity(_, _, _, _)
FillQuantity(st, w, position, n) ==
    IF n <= 0 THEN st ELSE FillQuantity(FillSlot(st, w, position), w, position, n - 1)

RECURSIVE FillPositions(_, _, _, _)
FillPositions(st, w, cfg, i) ==
    IF i > Len(cfg) THEN st
    ELSE FillPositions(FillQuantity(st, w, cfg[i].position, cfg[i].quantity), w, cfg, i + 1)

\* the loop over the weeks of line 55 (the set is built once, before the loop)
RECURSIVE FillWeeks(_, _, _)
FillWeeks(st, ws, cfg) ==
    IF ws = {} THEN st
    ELSE LET w == CHOOSE x \in ws : \A y \in ws : x <= y
         IN  FillWeeks(FillPositions(st, w, cfg, 1), ws \ {w}, cfg)

\* line 79: score / len(set(weeks of the rows left)); den = 0: ZeroDivisionError
DivideByWeeksBefore(total, rows, before) == [num |-> total, den |-> Cardinality(before)]
DivideByWeeks(total, rows, before) == [num |-> total, den |-> Cardinality(WeeksOf(rows))]

Raises(s) == s.den = 0

ScoreRun(rows, cfg, ids) ==
    LET filtered == FilterPlayers(rows, ids)
    IN  FillWeeks([projections |-> filtered, score |-> 0, picks |-> <<>>], WeeksOf(filtered), cfg)

get_max_possible_score(rows, cfg, ids) ==
    LET run == ScoreRun(rows, cfg, ids)
    IN  DivideByWeeks(run.score, run.projections, WeeksOf(FilterPlayers(rows, ids)))

----------------------------------------------------------------------------
(* The scorer, one step at a time *)

\* The tables the scorer is run on: three players.  A is a running back, B a
\* wide receiver, each possibly with both tags; C has one tag and may be a
\* quarterback.  In week 1 a player has points, missing points or no row; in
\* week 2 A and B have no row or a row worth 1 point, and C has no row.
ScorerPlayers == {"A", "B", "C"}
ScorerTags(p) ==
    IF p = "A" THEN {{"RB"}, {"RB", "WR"}}
    ELSE IF p = "B" THEN {{"WR"}, {"RB", "WR"}}
    ELSE {{"RB"}, {"WR"}, {"QB"}}
WeekPts(p, w) ==
    IF w = 1 THEN (0..MaxPts) \cup {NaN, NoRow}
    ELSE IF p = "C" THEN {NoRow} ELSE {NoRow, 1}
ScorerTables ==
    { Table([p \in ScorerPlayers |-> user_id], tags, pts) :
        tags \in {f \in [ScorerPlayers -> SUBSET {"QB", "RB", "WR"}] :
                    \A p \in ScorerPlayers : f[p] \in ScorerTags(p)},
        pts \in {f \in [ScorerPlayers -> [Weeks -> (0..MaxPts) \cup {NaN, NoRow}]] :
                    \A p \in ScorerPlayers, w \in Weeks : f[p][w] \in WeekPts(p, w)} }
ScorerArguments == {{}, {"A", "B"}, ScorerPlayers}

NoValue == [type |-> "none", len |-> 0]

IdleFetch ==
    /\ recursive_depth = 0
    /\ attempts = 0
    /\ failed = 0
    /\ output = ""
    /\ fresult = NoValue
    /\ fexception = "none"
    /\ fpc = "idle"

IdleRequest ==
    /\ max_group_size = 0
    /\ set_order = [u \in Users |-> <<>>]
    /\ user_base_score = [num |-> 0, den |-> 1]
    /\ other_base_score = [num |-> 0, den |-> 1]
    /\ loop = <<>>
    /\ accepted_trades = <<>>
    /\ recommended_trades = <<>>
    /\ exception = "none"
    /\ report = "none"
    /\ pc = "idle"

InitScorer ==
    /\ player_projections \in ScorerTables
    /\ team_composition \in SlotConfigs
    /\ player_ids \in ScorerArguments
    /\ IdleRequest
    /\ IdleFetch
    /\ projections = <<>>
    /\ weeks_left = {}
    /\ week = 0
    /\ slot = 0
    /\ filled = 0
    /\ score = 0
    /\ picks = <<>>
    /\ spc = "call"
    /\ sresult = [num |-> 0, den |-> 1]

\* lines 47-53: copy and filter the rows, build the set of weeks to iterate
Filter ==
    /\ spc = "call"
    /\ projections' = FilterPlayers(player_projections, player_ids)
    /\ weeks_left' = WeeksOf(projections')
    /\ score' = 0
    /\ spc' = "weeks"
    /\ UNCHANGED <<player_projections, team_composition, player_ids, week, slot, filled, picks, sresult, tvars, fvars>>

\* line 55: the next week of the set, in whatever order the set yields it
NextWeek ==
    /\ spc = "weeks"
    /\ \E w \in weeks_left :
         /\ week' = w
         /\ weeks_left' = weeks_left \ {w}
    /\ slot' = 1
    /\ filled' = 0
    /\ spc' = "slots"
    /\ UNCHANGED <<player_projections, team_composition, player_ids, projections, score, picks, sresult, tvars, fvars>>

\* lines 63-77: one iteration of the quantity loop
FillOne ==
    /\ spc = "slots"
    /\ slot <= Len(team_composition)
    /\ filled < team_composition[slot].quantity
    /\ LET st == FillSlot([projections |-> projections, score |-> score, picks |-> picks],
                          week, team_composition[slot].position)
       IN  /\ projections' = st.projections
           /\ score' = st.score
           /\ picks' = st.picks
    /\ filled' = filled + 1
    /\ UNCHANGED <<player_projections, team_composition, player_ids, weeks_left, week, slot, spc, sresult, tvars, fvars>>

\* line 57: the next position of the composition
NextPosition ==
    /\ spc = "slots"
    /\ slot <= Len(team_composition)
    /\ filled >= team_composition[slot].quantity
    /\ slot' = slot + 1
    /\ filled' = 0
    /\ UNCHANGED <<player_projections, team_composition, player_ids, projections, weeks_left, week, score, picks, spc, sresult, tvars, fvars>>

\* the composition is exhausted for this week: back to the loop of line 55
EndWeek ==
    /\ spc = "slots"
    /\ slot > Len(team_composition)
    /\ spc' = "weeks"
    /\ week' = 0
    /\ slot' = 0
    /\ UNCHANGED <<player_projections, team_composition, player_ids, projections, weeks_left, filled, score, picks, sresult, tvars, fvars>>

\* line 79: divide the sum by the number of weeks of the rows left
ReturnScore ==
    /\ spc = "weeks"
    /\ weeks_left = {}
    /\ LET r == DivideByWeeks(score, projections,
                              WeeksOf(FilterPlayers(player_projections, player_ids)))
       IN  /\ sresult' = r
           /\ spc' = IF Raises(r) THEN "raised" ELSE "returned"
    /\ UNCHANGED <<player_projections, team_composition, player_ids, projections, weeks_left, week, slot, filled, score, picks, tvars, fvars>>

NextScorer == Filter \/ NextWeek \/ FillOne \/ NextPosition \/ EndWeek \/ ReturnScore

SpecScorer == InitScorer /\ [][NextScorer]_vars


----------------------------------------------------------------------------
(* _get_recommended_trades *)

\* the fractions a / b compared as the floats are
Greater(a, b) == a.num * b.den > b.num * a.den
GreaterEq(a, b) == a.num * b.den >= b.num * a.den
SameValue(a, b) == a.num * b.den = b.num * a.den

\* set(player_projections[user_id == uid]["player_id"])
RosterOf(rows, uid) == {rows[i].player_id : i \in {j \in DOMAIN rows : rows[j].user_id = uid}}

\* the keys of other_players: groupby("user_id") yields the other users sorted
OtherUsers(rows, uid) ==
    SelectSeq(UserOrder, LAMBDA x: x # uid /\ RosterOf(rows, x) # {})

\* the orders in which a set may be iterated
Perms(S) ==
    {f \in [1..Cardinality(S) -> S] : \A i, j \in 1..Cardinality(S) : f[i] = f[j] => i = j}

\* itertools.combinations(seq, k), in the order it yields them
RECURSIVE combinations(_, _)
combinations(seq, k) ==
    IF k = 0 THEN << <<>> >>
    ELSE IF Len(seq) < k THEN <<>>
    ELSE LET with == combinations(Tail(seq), k - 1)
         IN  [i \in 1..Len(with) |-> <<Head(seq)>> \o with[i]] \o combinations(Tail(seq), k)

RECURSIVE GroupsFrom(_, _, _)
GroupsFrom(seq, size, largest) ==
    IF size > largest THEN <<>>
    ELSE combinations(seq, size) \o GroupsFrom(seq, size + 1, largest)

\* [combo for group_size in range(1, max_group_size + 1) for combo in combinations(...)]
GroupsExactSize(seq, mgs) == GroupsFrom(seq, mgs, mgs)
Groups(seq, mgs) == GroupsFrom(seq, 1, mgs)

RECURSIVE Flatten(_)
Flatten(seqs) == IF seqs = <<>> THEN <<>> ELSE Head(seqs) \o Flatten(Tail(seqs))

\* The iterations of the nested loops of lines 141-169, in order: for each group
\* of the user's players and each other user, the computation of that user's
\* base score ("base"), then one tested trade per group of their players ("test").
PartnerEvents(g, o, mgs, order) ==
    LET og == Groups(order[o], mgs)
    IN  <<[kind |-> "base", With |-> o, Gives |-> g, Receives |-> <<>>]>>
        \o [i \in 1..Len(og) |-> [kind |-> "test", With |-> o, Gives |-> g, Receives |-> og[i]]]

LoopEvents(rows, uid, mgs, order) ==
    LET ug == Groups(order[uid], mgs)
        others == OtherUsers(rows, uid)
    IN  Flatten([gi \in 1..Len(ug) |->
                   Flatten([oi \in 1..Len(others) |->
                              PartnerEvents(ug[gi], others[oi], mgs, order)])])

\* lines 155-156
proposed_user_players(rows, uid, e) == (RosterOf(rows, uid) \ ToSet(e.Gives)) \cup ToSet(e.Receives)
proposed_other_players(rows, e) == (RosterOf(rows, e.With) \ ToSet(e.Receives)) \cup ToSet(e.Gives)

\* line 162
AcceptsNonStrict(pu, ub, po, ob) == GreaterEq(pu, ub) /\ GreaterEq(po, ob)
Accepts(pu, ub, po, ob) == Greater(pu, ub) /\ GreaterEq(po, ob)

Trade(e, pu, po) ==
    [With |-> e.With, Gives |-> e.Gives, Receives |-> e.Receives,
     UserProjection |-> pu, OtherProjection |-> po]

\* One iteration of the loops on the locals
\* st = [raised, other_base_score, accepted_trades], given the user's base score ub.
LoopStep(rows, cfg, uid, ub, st, e) ==
    IF e.kind = "base"
    THEN LET ob == get_max_possible_score(rows, cfg, RosterOf(rows, e.With))
         IN  [st EXCEPT !.raised = Raises(ob), !.other_base_score = ob]
    ELSE LET pu == get_max_possible_score(rows, cfg, proposed_user_players(rows, uid, e))
             po == get_max_possible_score(rows, cfg, proposed_other_players(rows, e))
         IN  IF Raises(pu) \/ Raises(po)
             THEN [st EXCEPT !.raised = TRUE]
             ELSE IF Accepts(pu, ub, po, st.other_base_score)
             THEN [st EXCEPT !.accepted_trades = Append(@, Trade(e, pu, po))]
             ELSE st

RECURSIVE RunLoops(_, _, _, _, _, _, _)
RunLoops(rows, cfg, uid, ub, st, events, i) ==
    IF st.raised \/ i > Len(events) THEN st
    ELSE RunLoops(rows, cfg, uid, ub, LoopStep(rows, cfg, uid, ub, st, events[i]), events, i + 1)

\* A whole call: [raised |-> the call raised, accepted_trades |-> the list returned]
SearchTrades(rows, cfg, uid, mgs, order) ==
    LET ub == get_max_possible_score(rows, cfg, RosterOf(rows, uid))
        st0 == [raised |-> Raises(ub), other_base_score |-> ub, accepted_trades |-> <<>>]
    IN  RunLoops(rows, cfg, uid, ub, st0, LoopEvents(rows, uid, mgs, order), 1)

----------------------------------------------------------------------------
(* get_recommended_trades: the data frame, its formatting and its sort *)

\* lines 76-92: ids become names through the Mapping dictionaries
FormatPlayers(t) ==
    [i \in DOMAIN t |-> [player_name_of |-> t[i], player_position_of |-> t[i]]]
FormatTrade(t) ==
    [With |-> [display_name_of |-> t.With],
     Gives |-> FormatPlayers(t.Gives),
     Receives |-> FormatPlayers(t.Receives),
     UserProjection |-> t.UserProjection,
     OtherProjection |-> t.OtherProjection]
FormatFrame(trades) == [i \in DOMAIN trades |-> FormatTrade(trades[i])]

\* a stable sort by "User Projection", descending
RECURSIVE InsertDescending(_, _)
InsertDescending(sorted, x) ==
    IF sorted = <<>> THEN <<x>>
    ELSE IF GreaterEq(Head(sorted).UserProjection, x.UserProjection)
    THEN <<Head(sorted)>> \o InsertDescending(Tail(sorted), x)
    ELSE <<x>> \o sorted

RECURSIVE StableSortDescending(_)
StableSortDescending(frame) ==
    IF frame = <<>> THEN <<>>
    ELSE InsertDescending(StableSortDescending(SubSeq(frame, 1, Len(frame) - 1)), frame[Len(frame)])

Exchange(seq, i, j) == [seq EXCEPT ![i] = seq[j], ![j] = seq[i]]

\* line 94: sort_values("User Projection", ascending=False) with the default
\* kind="quicksort", which is not a stable sort: rows of equal key come out in an
\* order the build decides.  The outcomes modelled: the stable order, and the
\* stable order with two rows of equal key exchanged.
sort_values(frame) ==
    LET stable == StableSortDescending(frame)
    IN  {stable} \cup
        { Exchange(stable, i, j) : <<i, j>> \in
            {ij \in (DOMAIN stable) \X (DOMAIN stable) :
               /\ ij[1] < ij[2]
               /\ SameValue(stable[ij[1]].UserProjection, stable[ij[2]].UserProjection)} }

----------------------------------------------------------------------------
(* A request, one step at a time *)

IdleScorer ==
    /\ player_ids = {}
    /\ projections = <<>>
    /\ weeks_left = {}
    /\ week = 0
    /\ slot = 0
    /\ filled = 0
    /\ score = 0
    /\ picks = <<>>
    /\ spc = "idle"
    /\ sresult = [num |-> 0, den |-> 1]

\* The leagues a request is made on: four players with one position tag each
\* (A a running back, B a wide receiver); A belongs to the user, C to v, B to
\* the user or to v, D to v or to w.
LeaguePlayers == ToSet(PlayerOrder)
Ownerships ==
    {f \in [LeaguePlayers -> Users] :
       /\ f["A"] = "u" /\ f["B"] \in {"u", "v"} /\ f["C"] = "v" /\ f["D"] \in {"v", "w"}}
LeagueTags == {f \in [LeaguePlayers -> {"RB", "WR"}] : f["A"] = "RB" /\ f["B"] = "WR"}
\* Week 1: every player has a row with points.  Week 2: no rows at all, or A and
\* C have a row worth 1 point, or every player has a row with missing points.
LeagueTables ==
    { Table(owner, [p \in LeaguePlayers |-> {tag[p]}],
            [p \in LeaguePlayers |->
               [w \in Weeks |-> IF w = 1 THEN pts[p]
                                ELSE IF week2 = NaN \/ p \in {"A", "C"} THEN week2
                                ELSE NoRow]]) :
        owner \in Ownerships,
        tag \in LeagueTags,
        pts \in [LeaguePlayers -> 1..MaxPts],
        week2 \in {NoRow, 1, NaN} }

\* the scenario of the specification's section 8: A (RB, 10 points) for B (WR, 12 points)
ScenarioTable == <<Row("u", "A", "RB", 1, 10), Row("v", "B", "WR", 1, 12)>>
ScenarioConfig == <<Slot("flex", 1)>>

SetOrders(rows) ==
    { [x \in Users |-> IF x = "u" THEN ou ELSE IF x = "v" THEN ov ELSE ow] :
        ou \in Perms(RosterOf(rows, "u")),
        ov \in Perms(RosterOf(rows, "v")),
        ow \in Perms(RosterOf(rows, "w")) }

Init ==
    /\ \/ /\ player_projections \in LeagueTables
          /\ team_composition \in SearchConfigs
          /\ max_group_size \in 0..MaxGroup
       \/ /\ player_projections = ScenarioTable
          /\ team_composition = ScenarioConfig
          /\ max_group_size = 1
    /\ set_order \in SetOrders(player_projections)
    /\ user_base_score = [num |-> 0, den |-> 1]
    /\ other_base_score = [num |-> 0, den |-> 1]
    /\ loop = <<>>
    /\ accepted_trades = <<>>
    /\ recommended_trades = <<>>
    /\ exception = "none"
    /\ report = "none"
    /\ pc = "call"
    /\ IdleScorer
    /\ IdleFetch

inputs == <<player_projections, team_composition, max_group_size, set_order>>

\* lines 117-138: the Projections object, the user's players and base score
BaseScore ==
    /\ pc = "call"
    /\ LET ub == get_max_possible_score(player_projections, team_composition,
                                        RosterOf(player_projections, user_id))
       IN  /\ user_base_score' = ub
           /\ pc' = IF Raises(ub) THEN "raised" ELSE "search"
           /\ exception' = IF Raises(ub) THEN "ZeroDivisionError" ELSE "none"
           /\ loop' = IF Raises(ub) THEN <<>>
                      ELSE LoopEvents(player_projections, user_id, max_group_size, set_order)
    /\ accepted_trades' = <<>>
    /\ UNCHANGED <<inputs, other_base_score, recommended_trades, report, svars, fvars>>

\* lines 141-169: one iteration of the nested loops
Iterate ==
    /\ pc = "search"
    /\ loop # <<>>
    /\ LET st == LoopStep(player_projections, team_composition, user_id, user_base_score,
                          [raised |-> FALSE, other_base_score |-> other_base_score,
                           accepted_trades |-> accepted_trades],
                          Head(loop))
       IN  /\ other_base_score' = st.other_base_score
           /\ accepted_trades' = st.accepted_trades
           /\ pc' = IF st.raised THEN "raised" ELSE "search"
           /\ exception' = IF st.raised THEN "ZeroDivisionError" ELSE "none"
    /\ loop' = Tail(loop)
    /\ UNCHANGED <<inputs, user_base_score, recommended_trades, report, svars, fvars>>

\* line 171: the loops are over, the list goes back to get_recommended_trades
ReturnTrades ==
    /\ pc = "search"
    /\ loop = <<>>
    /\ pc' = "frame"
    /\ UNCHANGED <<inputs, user_base_score, other_base_score, loop, accepted_trades,
                   recommended_trades, exception, report, svars, fvars>>

\* lines 71-94: pd.DataFrame(list), the formatting of the columns, the sort.
\* A frame built from an empty list has no column "Gives": line 82 raises KeyError.
ReturnFrame ==
    /\ pc = "frame"
    /\ \/ /\ accepted_trades = <<>>
          /\ pc' = "raised"
          /\ exception' = "KeyError"
          /\ UNCHANGED recommended_trades
       \/ /\ accepted_trades # <<>>
          /\ recommended_trades' \in sort_values(FormatFrame(accepted_trades))
          /\ pc' = "returned"
          /\ UNCHANGED exception
    /\ UNCHANGED <<inputs, user_base_score, other_base_score, loop, accepted_trades, report, svars, fvars>>

\* app.py lines 55-58: the front end reports what it got
Report ==
    /\ pc = "returned"
    /\ report' = IF recommended_trades = <<>> THEN "warning" ELSE "success"
    /\ pc' = "done"
    /\ UNCHANGED <<inputs, user_base_score, other_base_score, loop, accepted_trades,
                   recommended_trades, exception, svars, fvars>>

Next == BaseScore \/ Iterate \/ ReturnTrades \/ ReturnFrame \/ Report

Spec == Init /\ [][Next]_vars

----------------------------------------------------------------------------
(* _load_player_projections_one_week *)

max_recursion_depth == 100

\* What one subprocess.run(...).stdout.strip() can give: nothing (curl failed),
\* a page that is not JSON, truncated JSON, or JSON text: an empty list, a list
\* of two projections, an object.  OSError stands for subprocess.run (or the
\* decoding of its output) raising instead of giving a string.
Outputs == {"", "<html>", "[{", "[]", "[{},{}]", "{}"}

RunOutcomes == Outputs \cup {"OSError"}

\* json.loads: the texts it parses, and the value it gives
Parses(text) == text \in {"[]", "[{},{}]", "{}"}

json_loads(text) ==
    IF text = "[]" THEN [type |-> "list", len |-> 0]
    ELSE IF text = "[{},{}]" THEN [type |-> "list", len |-> 2]
    ELSE [type |-> "dict", len |-> 0]

\* line 84
DepthExceededAtLimit(depth) == depth >= max_recursion_depth
DepthExceeded(depth) == depth > max_recursion_depth

InitFetch ==
    /\ player_projections = <<>>
    /\ team_composition = <<>>
    /\ IdleScorer
    /\ IdleRequest
    /\ recursive_depth = 0
    /\ attempts = 0
    /\ failed = 0
    /\ output = ""
    /\ fresult = NoValue
    /\ fexception = "none"
    /\ fpc = "call"

\* lines 84-85: the depth check on entering a call; the ValueError is raised
\* from inside the except blocks of the calls below it, which do not catch it
Enter ==
    /\ fpc = "call"
    /\ IF DepthExceeded(recursive_depth)
       THEN /\ fexception' = "ValueError"
            /\ fpc' = "raised"
       ELSE /\ fpc' = "try"
            /\ UNCHANGED fexception
    /\ UNCHANGED <<recursive_depth, attempts, failed, output, fresult>>
    /\ UNCHANGED <<player_projections, team_composition, svars, tvars>>

\* lines 88-93: one run of curl
Run ==
    /\ fpc = "try"
    /\ \E o \in RunOutcomes :
         /\ output' = o
         /\ fpc' = IF o = "OSError" THEN "except" ELSE "loads"
    /\ attempts' = attempts + 1
    /\ failed' = IF output' = "OSError" \/ ~Parses(output') THEN failed + 1 ELSE failed
    /\ UNCHANGED <<recursive_depth, fresult, fexception>>
    /\ UNCHANGED <<player_projections, team_composition, svars, tvars>>

\* line 94: return json.loads(output), through every enclosing call
Loads ==
    /\ fpc = "loads"
    /\ IF Parses(output)
       THEN /\ fresult' = json_loads(output)
            /\ fpc' = "returned"
       ELSE /\ fpc' = "except"
            /\ UNCHANGED fresult
    /\ UNCHANGED <<recursive_depth, attempts, failed, output, fexception>>
    /\ UNCHANGED <<player_projections, team_composition, svars, tvars>>

\* lines 95-96: the recursive call of the except block
Retry ==
    /\ fpc = "except"
    /\ recursive_depth' = recursive_depth + 1
    /\ fpc' = "call"
    /\ UNCHANGED <<attempts, failed, output, fresult, fexception>>
    /\ UNCHANGED <<player_projections, team_composition, svars, tvars>>

NextFetch == Enter \/ Run \/ Loads \/ Retry

\* every call of curl ends, and the interpreter keeps running the function
SpecFetch == InitFetch /\ [][NextFetch]_vars /\ WF_vars(NextFetch)


----------------------------------------------------------------------------
(* Properties of the trade search *)

\* _get_recommended_trades has returned its list to get_recommended_trades
HelperReturned ==
    \/ pc \in {"frame", "returned", "done"}
    \/ pc = "raised" /\ exception = "KeyError"

OtherUserIds == Users \ {user_id}

\* the non-empty subsets of S of at most k members
GroupsOf(S, k) == {T \in SUBSET S : T # {} /\ Cardinality(T) <= k}

ScoreOf(ids) == get_max_possible_score(player_projections, team_composition, ids)

Listed(o, gives, receives) ==
    \E i \in DOMAIN accepted_trades :
       /\ accepted_trades[i].With = o
       /\ ToSet(accepted_trades[i].Gives) = gives
       /\ ToSet(accepted_trades[i].Receives) = receives

\* the criterion of the specification, recomputed from the table
Qualifies(o, gives, receives) ==
    LET mine == RosterOf(player_projections, user_id)
        theirs == RosterOf(player_projections, o)
        ub == ScoreOf(mine)
        ob == ScoreOf(theirs)
        pu == ScoreOf((mine \ gives) \cup receives)
        po == ScoreOf((theirs \ receives) \cup gives)
    IN  /\ pu.num * ub.den > ub.num * pu.den
        /\ po.num * ob.den >= ob.num * po.den

\* C1: when _get_recommended_trades returns its list, a candidate (other user,
\* gives, receives), with gives and receives non-empty groups of at most
\* max_group_size players of the two rosters, is in the list if and only if the
\* user's score strictly improves and the other user's score does not drop.
C1_AcceptedIffQualifies ==
    HelperReturned =>
        \A o \in OtherUserIds :
          \A gives \in GroupsOf(RosterOf(player_projections, user_id), max_group_size) :
            \A receives \in GroupsOf(RosterOf(player_projections, o), max_group_size) :
               Listed(o, gives, receives) <=> Qualifies(o, gives, receives)

\* a two-for-one trade was accepted, and a candidate that improves the user was
\* refused because the other user's score would drop
C1_Witness ==
    /\ HelperReturned
    /\ max_group_size = 2
    /\ \E i \in DOMAIN accepted_trades : Len(accepted_trades[i].Gives) = 2
    /\ \E i \in DOMAIN accepted_trades : Len(accepted_trades[i].Receives) = 1
    /\ \E o \in OtherUserIds :
         \E gives \in GroupsOf(RosterOf(player_projections, user_id), max_group_size) :
           \E receives \in GroupsOf(RosterOf(player_projections, o), max_group_size) :
              /\ ~Listed(o, gives, receives)
              /\ Greater(ScoreOf((RosterOf(player_projections, user_id) \ gives) \cup receives),
                         ScoreOf(RosterOf(player_projections, user_id)))

IsScenario ==
    /\ player_projections = ScenarioTable
    /\ team_composition = ScenarioConfig
    /\ max_group_size = 1

\* C3: in the scenario (user: A, RB, 10 points in week 1; other user: B, WR, 12
\* points in week 1; one flex slot; max_group_size 1) the user's roster scores
\* 10, the other roster 12, the search ends without an error and does not
\* return the trade of A for B.
C3_ScenarioScoresAndRejects ==
    (IsScenario /\ pc # "call") =>
        /\ exception # "ZeroDivisionError"
        /\ user_base_score = [num |-> 10, den |-> 1]
        /\ ScoreOf({"B"}) = [num |-> 12, den |-> 1]
        /\ HelperReturned => ~Listed("v", {"A"}, {"B"})

InvalidConfiguration == max_group_size <= 0 \/ team_composition = <<>>

\* C4: when no candidate is accepted (the configuration being a valid one),
\* get_recommended_trades returns an empty result, which the front end reports
\* as a warning; the request never ends in an error on an empty list of
\* accepted trades.
C4_EmptyResultIsReturned ==
    (HelperReturned /\ accepted_trades = <<>> /\ ~InvalidConfiguration) =>
        /\ pc # "raised"
        /\ pc \in {"returned", "done"} => recommended_trades = <<>>
        /\ pc = "done" => report = "warning"

\* C5: a request with max_group_size <= 0 or with an empty slot configuration is
\* rejected with an error before the search starts: no score is computed, no
\* list is returned.
C5_InvalidConfigurationRejected ==
    InvalidConfiguration =>
        \/ pc = "call"
        \/ pc = "raised" /\ exception \notin {"none", "ZeroDivisionError", "KeyError"}

DiscoveryIndex(row) ==
    CHOOSE k \in DOMAIN accepted_trades : FormatTrade(accepted_trades[k]) = row

Descending(frame) ==
    \A i, j \in DOMAIN frame :
       i < j => GreaterEq(frame[i].UserProjection, frame[j].UserProjection)

TiesKeepDiscoveryOrder(frame) ==
    \A i, j \in DOMAIN frame :
       (i < j /\ SameValue(frame[i].UserProjection, frame[j].UserProjection))
          => DiscoveryIndex(frame[i]) < DiscoveryIndex(frame[j])

\* C6: the frame get_recommended_trades returns is ordered by user score,
\* descending, and rows of equal user score keep the order in which the search
\* appended them.
C6_SortedStable ==
    pc \in {"returned", "done"} =>
        /\ Descending(recommended_trades)
        /\ TiesKeepDiscoveryOrder(recommended_trades)

\* C7: the search on the same table, user, max_group_size and slot configuration
\* returns the same ordered list whatever order the roster sets are iterated in.
C7_SameListWhateverOrder ==
    HelperReturned =>
        \A order \in SetOrders(player_projections) :
           LET again == SearchTrades(player_projections, team_composition, user_id,
                                     max_group_size, order)
           IN  ~again.raised /\ again.accepted_trades = accepted_trades

\* the same search with max_group_size = 2
SearchWithTwo ==
    SearchTrades(player_projections, team_composition, user_id, 2, set_order)

\* C8: with max_group_size = 1 every returned trade gives one player and
\* receives one, and each of them (same partner, players and scores) is among
\* the trades the search returns on the same inputs with max_group_size = 2.
C8_SizeOneThenSuperset ==
    (HelperReturned /\ max_group_size = 1) =>
        /\ \A i \in DOMAIN accepted_trades :
              Len(accepted_trades[i].Gives) = 1 /\ Len(accepted_trades[i].Receives) = 1
        /\ LET two == SearchWithTwo
           IN  ~two.raised => ToSet(accepted_trades) \subseteq ToSet(two.accepted_trades)

\* the size-1 search returned trades and the size-2 search returns more
C8_Witness ==
    /\ HelperReturned
    /\ max_group_size = 1
    /\ accepted_trades # <<>>
    /\ LET two == SearchWithTwo
       IN  ~two.raised /\ Len(two.accepted_trades) > Len(accepted_trades)


----------------------------------------------------------------------------
(* Properties of the lineup scorer *)

ScorerEnded == spc \in {"returned", "raised"}

\* C2: scoring the empty set of player ids returns 0.
C2_EmptySetScoresZero ==
    (player_ids = {} /\ ScorerEnded) => (spc = "returned" /\ sresult.num = 0)

RECURSIVE SumPoints(_)
SumPoints(ps) == IF ps = <<>> THEN 0 ELSE Head(ps).pts_ppr + SumPoints(Tail(ps))

\* the points the run picked for week w
WeekTotal(w) == SumPoints(SelectSeq(picks, LAMBDA p: p.week = w))

InsertAt(rows, k, r) == SubSeq(rows, 1, k) \o <<r>> \o SubSeq(rows, k + 1, Len(rows))

\* the week's total once the one-row player X is added, the row at place k of the table
WeekTotalWith(w, t, v, k) ==
    LET rows == InsertAt(player_projections, k, Row(user_id, "X", t, w, v))
        start == [projections |-> FilterPlayers(rows, player_ids \cup {"X"}),
                  score |-> 0, picks |-> <<>>]
    IN  FillPositions(start, w, team_composition, 1).score

\* v is greater than every value the run selected in week w for a slot that accepts t
AboveSelected(w, t, v) ==
    \A i \in DOMAIN picks :
       (picks[i].week = w /\ t \in position_map(picks[i].position)) => v > picks[i].pts_ppr

AddedRows ==
    {<<w, t, v, k>> \in Weeks \X {"QB", "RB", "WR", "TE"} \X (0..(MaxPts + 1))
                      \X {0, Len(player_projections)} : AboveSelected(w, t, v)}

\* C9: for a week and a slot configuration, adding to the player set one record
\* (of a new player) whose points are greater than every value selected for a
\* slot it is eligible for never decreases the week's greedy total.
C9_AddingRecordNeverDecreases ==
    ScorerEnded =>
        \A a \in AddedRows : WeekTotalWith(a[1], a[2], a[3], a[4]) >= WeekTotal(a[1])

\* the added record beats a selected value, takes its slot and the total grows
C9_Witness ==
    /\ ScorerEnded
    /\ \E a \in AddedRows :
          /\ \E i \in DOMAIN picks :
                picks[i].week = a[1] /\ a[2] \in position_map(picks[i].position)
          /\ WeekTotalWith(a[1], a[2], a[3], a[4]) > WeekTotal(a[1])

SelectedOnce ==
    \A i, j \in DOMAIN picks :
       (picks[i].player_id = picks[j].player_id /\ picks[i].week = picks[j].week) => i = j

Picked(r) ==
    \E i \in DOMAIN picks : picks[i].player_id = r.player_id /\ picks[i].week = r.week

OnlySelectedRemoved ==
    projections = SelectSeq(FilterPlayers(player_projections, player_ids), LAMBDA r: ~Picked(r))

\* C10: within a week a player is selected for at most one slot, whatever
\* position tags the player has; the rows left are the rows of the player set
\* less, for every selection, that player's rows of that week (the player's
\* other weeks and the other players' rows stay).
C10_OneSlotPerPlayerWeek ==
    spc \in {"weeks", "slots", "returned", "raised"} => (SelectedOnce /\ OnlySelectedRemoved)

\* a player with two position tags was selected, a slot that accepts both tags
\* stayed empty that week, and the player's row of the other week is still there
SlotsPerWeek ==
    SumPoints([i \in DOMAIN team_composition |-> [pts_ppr |-> team_composition[i].quantity]])

C10_Witness ==
    /\ spc = "returned"
    /\ \E i \in DOMAIN picks :
          /\ Cardinality({k \in DOMAIN player_projections :
                            /\ player_projections[k].player_id = picks[i].player_id
                            /\ player_projections[k].week = picks[i].week}) = 2
          /\ \E k \in DOMAIN projections :
                projections[k].player_id = picks[i].player_id
          /\ Len(SelectSeq(picks, LAMBDA p: p.week = picks[i].week)) < SlotsPerWeek
          /\ \E k \in DOMAIN team_composition : team_composition[k].position = "flex"

\* the rows of the player set less every selected player-week, and its weeks
PoolAfterRemovals ==
    SelectSeq(FilterPlayers(player_projections, player_ids), LAMBDA r: ~Picked(r))

WeeksBefore == WeeksOf(FilterPlayers(player_projections, player_ids))

WeeksAfter == WeeksOf(PoolAfterRemovals)

----------------------------------------------------------------------------
(* Properties of the one-week fetch *)

FetchEnded == fpc \in {"returned", "raised"}

\* what holds of the fetch at every point
FetchBounded ==
    /\ attempts <= max_recursion_depth + 1
    /\ fpc = "returned" =>
          /\ Parses(output)
          /\ fresult = json_loads(output)
          /\ failed = attempts - 1
          /\ fexception = "none"
    /\ fpc = "except" => failed = attempts
    /\ fpc = "raised" =>
          /\ attempts = max_recursion_depth + 1
          /\ failed = attempts
          /\ fexception = "ValueError"
          /\ fresult = NoValue

\* C12: the one-week fetch always ends; it returns the first response that
\* json.loads parses, every run before it having failed and been retried; when
\* every run fails it stops after max_recursion_depth + 1 = 101 runs with a
\* ValueError that leaves the function, and nothing is returned.
C12_FetchEndsWithin101Attempts == [](FetchBounded) /\ <>(FetchEnded)

\* all 101 runs failed and the ValueError left the function
C12_Witness ==
    /\ fpc = "raised"
    /\ fexception = "ValueError"
    /\ recursive_depth = max_recursion_depth + 1
    /\ attempts = 101
    /\ failed = 101

====
